---- MODULE Spec2Model ----
(***************************************************************************)
(* Model of src/main.rs of blobssss: a funder account splits its balance   *)
(* over `max` freshly generated child wallets (funding phase), then a      *)
(* 12 second interval drives an endless loop that sends between `min` and  *)
(* `max` blob-carrying self-transactions per tick (spam phase).            *)
(*                                                                         *)
(* main() is one async task.  pc is its position; every action is the      *)
(* code between two consecutive suspension points (.await) together with   *)
(* the outcome of the awaited call.  The ledger and the clock are the      *)
(* environment.                                                            *)
(***************************************************************************)
EXTENDS Integers, Sequences, FiniteSets, TLC

\* ---- bounds of the model ----
MaxN == 2          \* largest --min / --max value explored besides U8Max
MaxRpcs == 2       \* largest number of --rpcs endpoints
MaxBalance == 2    \* largest funder balance returned by get_balance
MaxNonce == 1      \* largest transaction count returned by an endpoint
MaxTicks == 2      \* ticks of the interval explored
MaxTime == 24      \* seconds of network delay explored in the spam phase

\* ---- program constants ----
U8Max == 255       \* Args.min / Args.max are u8
Period == 12       \* interval(Duration::from_secs(12))

VARIABLES
    min, max,        \* Args.min, Args.max
    keyOk,           \* whether Args.key decodes to a valid private key
    nrpcs,           \* providers.len()
    pc,              \* position of main()
    exit,            \* how main() ended: "" while running
    netCalled,       \* some RPC request has been issued
    balance,         \* let balance
    nonce,           \* let mut nonce (funder's local counter)
    nonce0,          \* the value get_transaction_count returned for the funder
    distribute_each, \* let distribute_each
    fi,              \* position of `for wallet in &child_wallets`
    tx,              \* the transaction envelope built last (NoTx if none)
    sent,            \* funding transactions accepted by send_tx_envelope, in order
    waiting,         \* number of register() futures pushed on `waiting`
    ledger,          \* per submitted funding transfer: pending / accepted / failed
    ticks,           \* number of interval ticks that fired
    num,             \* let num
    idx,             \* for idx in 0..num
    provider,        \* endpoint chosen for the current send attempt (1..nrpcs)
    snonce,          \* nonce fetched by the current send attempt
    addressed,       \* indices passed to child_wallets.get in the current tick
    failedAt,        \* indices whose fetch or submission failed in the current tick
    att,             \* what the current send attempt has done so far
    inflight,        \* send attempts started and not yet finished
    clock,           \* seconds since the interval was created
    deadline,        \* the interval's next deadline
    fires            \* times at which ticks fired

vars == <<min, max, keyOk, nrpcs, pc, exit, netCalled, balance, nonce, nonce0,
          distribute_each, fi, tx, sent, waiting, ledger, ticks, num, idx,
          provider, snonce, addressed, failedAt, att, inflight, clock, deadline,
          fires>>

cfgVars == <<min, max, keyOk, nrpcs>>
fundVars == <<balance, nonce, nonce0, distribute_each, fi, sent, waiting>>
spamVars == <<ticks, num, idx, provider, snonce, addressed, failedAt, att, inflight>>
timeVars == <<clock, deadline, fires>>

\* ---- values ----
U8Values == (0..MaxN) \cup {U8Max}

\* addr_of(&parent_wallet)
ParentAddr == [kind |-> "parent", ix |-> 0]

\* addr_of(child_wallets[i]); PrivateKeySigner::random() gives distinct addresses
ChildAddr(i) == [kind |-> "child", ix |-> i]

NoAddr == [kind |-> "none", ix |-> 0]

NoTx == [from |-> NoAddr, to |-> NoAddr, nonce |-> 0, value |-> 0, blob |-> FALSE]

\* a send attempt that has issued no request yet
NoAttempt ==
    [fetches |-> 0, fetchOk |-> FALSE, fetchVia |-> 0, fetchNonce |-> 0,
     submits |-> 0, subVia |-> 0, subTx |-> NoTx]

\* time a pending network call may take before it returns
Durations == {Period \div 2, 2 * Period}

\* ---- pure helpers ----

\* variant: the check forgets `args.max == 0`
InconsistentMinMaxNoZero(mn, mx) == mx < mn

\* `args.max < args.min || args.max == 0`
InconsistentMinMax(mn, mx) == mx < mn \/ mx = 0

\* u8 addition in a release build (wrapping)
WrappingAddU8(a, b) == (a + b) % (U8Max + 1)

\* u8 addition overflows
OverflowsU8(a, b) == a + b > U8Max

\* variant: every transfer goes to the first child wallet
FundingTxToFirst(i, n, v) ==
    [from |-> ParentAddr, to |-> ChildAddr(0), nonce |-> n, value |-> v, blob |-> FALSE]

\* TransactionRequest for one funding transfer (lines 75-84)
FundingTx(i, n, v) ==
    [from |-> ParentAddr, to |-> ChildAddr(i), nonce |-> n, value |-> v, blob |-> FALSE]

\* TransactionRequest of one send attempt (lines 111-122)
SpamTx(i, n) ==
    [from |-> ChildAddr(i), to |-> ChildAddr(i), nonce |-> n, value |-> 0, blob |-> TRUE]

\* variant: the counter skips a value
NextNonceSkip(n) == n + 2

\* nonce += 1
NextNonce(n) == n + 1

\* variant: the half-open range args.min..args.max
GenRangeExclusive(lo, hi) == lo..(hi - 1)

\* thread_rng().gen_range(args.min..=args.max): the possible outcomes
GenRange(lo, hi) == lo..hi

\* variant: the pool is one wallet short
ChildWalletsShort(mx) == 0..(mx - 2)

\* the indices of child_wallets: (0..args.max) wallets are generated (lines 51-53)
ChildWallets(mx) == 0..(mx - 1)

\* variant: a failed nonce fetch falls through to the build
AfterFetchErrFallThrough == "build"

\* `continue` after a failed nonce fetch (line 108): back to the loop head
AfterFetchErr == "loop"

\* variant: the transaction is submitted through the first endpoint
SendProviderFirst(p) == 1

\* the endpoint of send_tx_envelope (line 124): the `provider` of line 102
SendProvider(p) == p

\* variant: the request is spawned and the loop goes on without awaiting it
SpawnDetached(p) == "loop"

\* `.await` on the request of a send attempt (line 104): main is suspended at
\* position p until the response arrives
AwaitResponse(p) == p

\* variant: the loop steps by two
NextIdxSkip(i) == i + 2

\* the successor of idx in `for idx in 0..num`
NextIdx(i) == i + 1

\* variant: MissedTickBehavior::Burst, the interval's default
NextTimeoutBurst(timeout, now) == timeout + Period

\* MissedTickBehavior::Delay: the deadline that follows a tick which was due at
\* `timeout` and completed at `now`
NextTimeout(timeout, now) == IF now > timeout THEN now + Period ELSE timeout + Period

\* ---- initial state: the command line is any Args clap accepts ----
Init ==
    /\ min \in U8Values
    /\ max \in U8Values
    /\ keyOk \in BOOLEAN
    /\ nrpcs \in 0..MaxRpcs
    /\ pc = "start"
    /\ exit = ""
    /\ netCalled = FALSE
    /\ balance = 0
    /\ nonce = 0
    /\ nonce0 = 0
    /\ distribute_each = 0
    /\ fi = 0
    /\ tx = NoTx
    /\ sent = <<>>
    /\ waiting = 0
    /\ ledger = <<>>
    /\ ticks = 0
    /\ num = 0
    /\ idx = 0
    /\ provider = 0
    /\ snonce = 0
    /\ addressed = <<>>
    /\ failedAt = {}
    /\ att = NoAttempt
    /\ inflight = 0
    /\ clock = 0
    /\ deadline = 0
    /\ fires = <<>>

\* main() returns Err(..) or panics: the process ends
Terminate(why) ==
    /\ pc' = "done"
    /\ exit' = why

\* variant: the Err of a startup query is swallowed and main goes on
QueryFailedIgnored(why) ==
    /\ pc' = "prepare"
    /\ exit' = why

\* the `?` on a startup query (lines 56, 59, 60): main returns the Err
QueryFailed(why) == Terminate(why)

\* variant: the Err of a funding build or submission is swallowed and the loop
\* carries on with the same wallet
FundFailedIgnored(why) ==
    /\ pc' = "fund_build"
    /\ exit' = why

\* the `?` on the build (line 85) and on the submission (line 86) of a funding
\* transfer: main returns the Err
FundFailed(why) == Terminate(why)

\* ---- startup (lines 33-70) ----

\* lines 33-36: Args::parse() and the min/max check
Validate ==
    /\ pc = "start"
    /\ IF InconsistentMinMax(min, max)
         THEN Terminate("config")
         ELSE pc' = "setup" /\ exit' = exit
    /\ UNCHANGED <<cfgVars, netCalled, fundVars, tx, ledger, spamVars, timeVars>>

\* lines 38-55: providers are built (no request is sent), the funder key is
\* decoded, args.max child wallets are generated, providers.first().unwrap()
Setup ==
    /\ pc = "setup"
    /\ IF ~keyOk
         THEN Terminate("key")
         ELSE IF nrpcs = 0
                THEN Terminate("panic_no_provider")
                ELSE pc' = "get_balance" /\ exit' = exit
    /\ UNCHANGED <<cfgVars, netCalled, fundVars, tx, ledger, spamVars, timeVars>>

\* line 56: provider.get_balance(..).await?
GetBalance ==
    /\ pc = "get_balance"
    /\ netCalled' = TRUE
    /\ \/ \E b \in 0..MaxBalance :
            /\ balance' = b
            /\ pc' = "get_nonce"
            /\ exit' = exit
       \/ /\ QueryFailed("query_balance")
          /\ balance' = balance
    /\ UNCHANGED <<cfgVars, nonce, nonce0, distribute_each, fi, sent, waiting,
                   tx, ledger, spamVars, timeVars>>

\* lines 57-59: provider.get_transaction_count(..).await?
GetNonce ==
    /\ pc = "get_nonce"
    /\ \/ \E n \in 0..MaxNonce :
            /\ nonce' = n
            /\ nonce0' = n
            /\ pc' = "get_chain_id"
            /\ exit' = exit
       \/ /\ QueryFailed("query_nonce")
          /\ UNCHANGED <<nonce, nonce0>>
    /\ UNCHANGED <<cfgVars, netCalled, balance, distribute_each, fi, sent, waiting,
                   tx, ledger, spamVars, timeVars>>

\* line 60: provider.get_chain_id().await?
GetChainId ==
    /\ pc = "get_chain_id"
    /\ \/ pc' = "prepare" /\ exit' = exit
       \/ QueryFailed("query_chain_id")
    /\ UNCHANGED <<cfgVars, netCalled, fundVars, tx, ledger, spamVars, timeVars>>

\* lines 62-72: balance / U256::from(args.max + 1), then the blob sidecar.
\* args.max + 1 is u8 arithmetic: with overflow checks (debug profile) an
\* overflow panics, without them (release profile) it wraps and the U256
\* division by zero panics.
Prepare ==
    /\ pc = "prepare"
    /\ \E overflowChecks \in BOOLEAN, sidecarOk \in BOOLEAN :
         IF overflowChecks /\ OverflowsU8(max, 1)
           THEN Terminate("panic_overflow") /\ distribute_each' = distribute_each
           ELSE LET divisor == WrappingAddU8(max, 1) IN
                IF divisor = 0
                  THEN Terminate("panic_div_zero") /\ distribute_each' = distribute_each
                  ELSE /\ distribute_each' = balance \div divisor
                       /\ IF sidecarOk
                            THEN pc' = "fund_build" /\ exit' = exit
                            ELSE Terminate("sidecar")
    /\ UNCHANGED <<cfgVars, netCalled, balance, nonce, nonce0, fi, sent, waiting,
                   tx, ledger, spamVars, timeVars>>

\* ---- funding phase (lines 73-93) ----

\* variant: the confirmations are awaited after every single submission
AfterWalletWaitEach(i) == "join_all"

\* where the for loop over child_wallets goes after wallet number i
AfterWallet(i) == IF i < max THEN "fund_build" ELSE "join_all"

\* lines 75-85: the transfer to child_wallets[fi] is built and signed
FundBuild ==
    /\ pc = "fund_build"
    /\ \/ /\ tx' = FundingTx(fi, nonce, distribute_each)
          /\ pc' = "fund_send"
          /\ exit' = exit
       \/ /\ FundFailed("fund_build")
          /\ tx' = tx
    /\ UNCHANGED <<cfgVars, netCalled, fundVars, ledger, spamVars, timeVars>>

\* lines 86-87: send_tx_envelope(tx).await? consumes tx, the register() future
\* is pushed (not polled), nonce += 1, and the loop moves on
FundSend ==
    /\ pc = "fund_send"
    /\ \/ /\ sent' = Append(sent, tx)
          /\ ledger' = Append(ledger, "pending")
          /\ waiting' = waiting + 1
          /\ nonce' = NextNonce(nonce)
          /\ fi' = fi + 1
          /\ pc' = AfterWallet(fi + 1)
          /\ exit' = exit
       \/ /\ FundFailed("fund_send")
          /\ UNCHANGED <<sent, ledger, waiting, nonce, fi>>
    /\ tx' = NoTx
    /\ UNCHANGED <<cfgVars, netCalled, balance, nonce0, distribute_each,
                   spamVars, timeVars>>

\* lines 89-96: join_all drives the register() futures; each resolves to
\* Ok(PendingTransaction) once the watch is registered, or to Err.  The Ok
\* value is dropped by e.map(|_| ()), so the PendingTransaction (the future
\* that resolves on confirmation) is never awaited.  Then the interval is
\* created; its first deadline is now.
JoinAll ==
    /\ pc = "join_all"
    /\ \E registered \in [1..waiting -> BOOLEAN] :
         IF \A k \in 1..waiting : registered[k]
           THEN pc' = "tick_wait" /\ exit' = exit
           ELSE Terminate("register")
    /\ clock' = 0
    /\ deadline' = 0
    /\ fires' = <<>>
    /\ UNCHANGED <<cfgVars, netCalled, fundVars, tx, ledger, spamVars>>

\* ---- the ledger (environment) ----

\* transfers of one sender are included in nonce order: transfer k can be
\* decided once every earlier one has been accepted
Decidable(k) ==
    /\ k \in 1..Len(ledger)
    /\ ledger[k] = "pending"
    /\ \A j \in 1..(k - 1) : ledger[j] = "accepted"

\* a submitted funding transfer is included in a block
LedgerAccept(k) ==
    /\ Decidable(k)
    /\ ledger' = [ledger EXCEPT ![k] = "accepted"]
    /\ UNCHANGED <<cfgVars, pc, exit, netCalled, fundVars, tx, spamVars, timeVars>>

\* a submitted funding transfer is dropped and never confirms
LedgerFail(k) ==
    /\ Decidable(k)
    /\ ledger' = [ledger EXCEPT ![k] = "failed"]
    /\ UNCHANGED <<cfgVars, pc, exit, netCalled, fundVars, tx, spamVars, timeVars>>

\* ---- spam phase (lines 97-128) ----

\* lines 98-100: interval.tick().await completes at the deadline, or at once if
\* the deadline has passed; then the batch size is drawn
Tick ==
    /\ pc = "tick_wait"
    /\ ticks < MaxTicks
    /\ LET now == IF clock >= deadline THEN clock ELSE deadline IN
         /\ clock' = now
         /\ deadline' = NextTimeout(deadline, now)
         /\ fires' = Append(fires, now)
    /\ ticks' = ticks + 1
    /\ \E n \in GenRange(min, max) : num' = n
    /\ idx' = 0
    /\ addressed' = <<>>
    /\ failedAt' = {}
    /\ pc' = "loop"
    /\ UNCHANGED <<cfgVars, exit, netCalled, fundVars, tx, ledger, provider, snonce,
                   att, inflight>>

\* lines 101-104: next idx of 0..num; an endpoint is chosen at random, the
\* wallet is looked up and the nonce request is sent.  When the range is
\* exhausted the loop body of `loop` ends and the tick is awaited again.
LoopHead ==
    /\ pc = "loop"
    /\ IF idx < num
         THEN IF idx \in ChildWallets(max)
                THEN /\ \E p \in 1..nrpcs : provider' = p
                     /\ addressed' = Append(addressed, idx)
                     /\ att' = NoAttempt
                     /\ inflight' = inflight + 1
                     /\ pc' = AwaitResponse("fetch")
                     /\ exit' = exit
                     /\ UNCHANGED <<num, idx, failedAt>>
                ELSE /\ Terminate("panic_no_wallet")
                     /\ UNCHANGED <<provider, addressed, num, idx, failedAt, att,
                                    inflight>>
         ELSE /\ pc' = "tick_wait"
              /\ exit' = exit
              /\ num' = 0
              /\ idx' = 0
              /\ addressed' = <<>>
              /\ failedAt' = {}
              /\ att' = NoAttempt
              /\ UNCHANGED <<provider, inflight>>
    /\ UNCHANGED <<cfgVars, netCalled, fundVars, tx, ledger, ticks, snonce, timeVars>>

\* lines 104-110: get_transaction_count returns; on Err the attempt is given
\* up with `continue`
Fetch ==
    /\ pc = "fetch"
    /\ \/ \E n \in 0..MaxNonce :
            /\ snonce' = n
            /\ att' = [att EXCEPT !.fetches = @ + 1, !.fetchOk = TRUE,
                                  !.fetchVia = provider, !.fetchNonce = n]
            /\ pc' = "build"
            /\ UNCHANGED <<idx, failedAt, provider, inflight>>
       \/ /\ failedAt' = failedAt \cup {idx}
          /\ att' = [att EXCEPT !.fetches = @ + 1, !.fetchVia = provider]
          /\ pc' = AfterFetchErr
          /\ IF AfterFetchErr = "loop"
               THEN /\ idx' = NextIdx(idx)
                    /\ provider' = 0
                    /\ inflight' = inflight - 1
               ELSE UNCHANGED <<idx, provider, inflight>>
          /\ snonce' = snonce
    /\ UNCHANGED <<cfgVars, exit, netCalled, fundVars, tx, ledger, ticks, num,
                   addressed, timeVars>>

\* lines 111-123: the blob transaction is built and signed; `?` returns the
\* error from main
Build ==
    /\ pc = "build"
    /\ \/ /\ tx' = SpamTx(idx, snonce)
          /\ pc' = "send"
          /\ exit' = exit
       \/ /\ Terminate("spam_build")
          /\ tx' = tx
    /\ UNCHANGED <<cfgVars, netCalled, fundVars, ledger, spamVars, timeVars>>

\* lines 124-127: send_tx_envelope(tx) returns; an Err is printed; the
\* iteration's locals (provider, nonce, tx) go out of scope; next idx
Send ==
    /\ pc = "send"
    /\ \/ failedAt' = failedAt
       \/ failedAt' = failedAt \cup {idx}
    /\ att' = [att EXCEPT !.submits = @ + 1, !.subVia = SendProvider(provider),
                          !.subTx = tx]
    /\ inflight' = inflight - 1
    /\ idx' = NextIdx(idx)
    /\ pc' = "loop"
    /\ provider' = 0
    /\ snonce' = 0
    /\ tx' = NoTx
    /\ UNCHANGED <<cfgVars, exit, netCalled, fundVars, ledger, ticks, num,
                   addressed, timeVars>>

\* time passes while a request of the spam phase is pending
Elapse(d) ==
    /\ pc \in {"fetch", "send"}
    /\ clock + d <= MaxTime
    /\ clock' = clock + d
    /\ UNCHANGED <<cfgVars, pc, exit, netCalled, fundVars, tx, ledger, spamVars,
                   deadline, fires>>

Next ==
    \/ Validate
    \/ Setup
    \/ GetBalance
    \/ GetNonce
    \/ GetChainId
    \/ Prepare
    \/ FundBuild
    \/ FundSend
    \/ JoinAll
    \/ \E k \in 1..MaxN : LedgerAccept(k)
    \/ \E k \in 1..MaxN : LedgerFail(k)
    \/ Tick
    \/ LoopHead
    \/ Fetch
    \/ Build
    \/ Send
    \/ \E d \in Durations : Elapse(d)

Spec == Init /\ [][Next]_vars

\* ======================= properties =======================

\* the for loop of the current tick has run through 0..num
TickOver == pc = "loop" /\ idx >= num

AllAccepted == Len(ledger) = max /\ \A k \in 1..Len(ledger) : ledger[k] = "accepted"

SomeFailed == \E k \in 1..Len(ledger) : ledger[k] = "failed"

\* C1: a tick fires (the spam phase begins) only after each of the max funding
\* transfers has been accepted on the ledger.
C1_SpamOnlyAfterAcceptance == ticks > 0 => AllAccepted

\* C2: if a funding transfer fails to confirm, main ends with an error and the
\* spam phase is never entered: no tick is awaited and none fires.
C2_FailedTransferStopsSpam ==
    SomeFailed => (ticks = 0 /\ pc \notin {"tick_wait", "loop", "fetch", "build", "send"})

\* C3: for every accepted configuration max + 1 is computed without overflow,
\* the division never divides by zero, and every funding transfer carries
\* balance div (max + 1).
C3_ShareExact ==
    /\ exit \notin {"panic_overflow", "panic_div_zero"}
    /\ \A k \in 1..Len(sent) : sent[k].value = balance \div (max + 1)

\* C4: the i-th funding transfer (i = 0..max-1) carries nonce s + i where s is
\* the value fetched once, and the local counter is s + max when the loop ends.
C4_SequentialNonces ==
    /\ \A k \in 1..Len(sent) : sent[k].nonce = nonce0 + (k - 1)
    /\ nonce = nonce0 + Len(sent)
    /\ (pc \in {"join_all", "tick_wait", "loop", "fetch", "build", "send"}) =>
           (Len(sent) = max /\ nonce = nonce0 + max)

C4_Witness == pc = "join_all" /\ max >= 2 /\ nonce0 >= 1

\* C5: the count drawn at a tick satisfies min <= num <= max, and whenever a
\* tick is about to fire every value of min..max can be the count it draws.
C5_CountInRange ==
    /\ (ticks > 0 /\ pc # "tick_wait") => (min <= num /\ num <= max)
    /\ (pc = "tick_wait" /\ ticks < MaxTicks) =>
           \A n \in min..max : ENABLED (Tick /\ num' = n)

C5_Witness == pc = "loop" /\ idx = 0 /\ ticks >= 2 /\ min < max /\ num = max

\* C6: with max < min, max = 0 or an undecodable key, main ends with an error
\* and no RPC request is ever issued.
C6_ConfigErrorBeforeNetwork ==
    (max < min \/ max = 0 \/ ~keyOk) =>
        /\ ~netCalled
        /\ pc \in {"start", "setup", "done"}
        /\ pc = "done" => exit \in {"config", "key"}

C6_Witness == pc = "done" /\ exit \in {"config", "key"} /\ ~netCalled

\* C7: when a nonce fetch or a submission has failed in a tick, every later
\* attempt of that tick is still made and main keeps running: once the tick's
\* work has ended, all of 0..num-1 have been attempted and main has not ended.
C7_FailureKeepsBatch ==
    (failedAt # {} /\ (pc = "done" \/ TickOver)) =>
        (pc # "done" /\ Len(addressed) = num)

\* C8: once a tick has fired, main never ends: no failure of a send attempt's
\* fetch, build or submission leaves the loop.
C8_SpamNeverExits == ticks > 0 => pc # "done"

C10_NoBurst ==
    /\ ticks > 0 => deadline = fires[Len(fires)] + Period
    /\ \A k \in 1..(Len(fires) - 1) : fires[k + 1] - fires[k] >= Period

\* the work of tick 1 overran two periods; tick 2 fired once it ended, and
\* with its work done no further tick is due yet
C10_Witness ==
    /\ pc = "tick_wait"
    /\ Len(fires) = 2
    /\ fires[2] - fires[1] >= 2 * Period
    /\ clock < deadline

QueryErrors == {"query_balance", "query_nonce", "query_chain_id"}

SpamPcs == {"tick_wait", "loop", "fetch", "build", "send"}

\* C11: if the balance, nonce or chain id query fails, main ends with that
\* error, no funding transfer has been built or submitted and no tick fires.
C11_QueryFailureIsFatal ==
    exit \in QueryErrors =>
        /\ pc = "done"
        /\ sent = <<>>
        /\ tx = NoTx
        /\ ticks = 0

C11_Witness == pc = "done" /\ exit = "query_chain_id" /\ netCalled

\* C12: the funding loop never waits on the ledger: building and submitting
\* the next transfer is enabled whatever the state of the earlier ones, and
\* the fan-in wait (join_all) is reached only with all max transfers submitted.
C12_Pipelined ==
    /\ pc = "fund_build" => ENABLED FundBuild
    /\ pc = "fund_send" => ENABLED FundSend
    /\ pc = "join_all" => (Len(sent) = max /\ waiting = max)

\* the second transfer is being submitted while the first is still pending
C12_Witness == pc = "fund_send" /\ Len(sent) = 1 /\ ledger[1] = "pending"

\* C13 (as stated): when a funding transaction is submitted the local counter
\* has already been increased, i.e. it is one above the transaction's nonce.
C13_IncrementBeforeSubmit ==
    [][Len(sent') > Len(sent) => nonce = sent'[Len(sent')].nonce + 1]_vars

\* C13 (amended): the counter still equals the transaction's nonce while the
\* transaction is submitted, and is increased by exactly one in the step in
\* which the submission returns Ok; it changes at no other point of the loop.
C13_IncrementAfterSubmit ==
    [][/\ Len(sent') > Len(sent) =>
             /\ Len(sent') = Len(sent) + 1
             /\ nonce = sent'[Len(sent')].nonce
             /\ nonce' = nonce + 1
       /\ (pc \in {"fund_build", "fund_send"} /\ nonce' # nonce) =>
             Len(sent') > Len(sent)]_vars

C13_Witness == Len(sent) = 2 /\ nonce = nonce0 + 2 /\ nonce0 >= 1

\* C16: the k-th funding transfer goes from the funder to child wallet k (pool
\* order), so once funding is complete every child wallet has received exactly
\* one transfer; no funding transfer is issued once the spam phase has begun.
C16_OneTransferEachInOrder ==
    /\ \A k \in 1..Len(sent) :
           sent[k].from = ParentAddr /\ sent[k].to = ChildAddr(k - 1)
    /\ Len(sent) <= max
    /\ (pc \in SpamPcs \/ ticks > 0) => Len(sent) = max
    /\ (pc \in SpamPcs \/ ticks > 0) => tx.from # ParentAddr

C16_Witness == ticks > 0 /\ Len(sent) = 2 /\ pc = "send"

\* C19: if the build or the submission of funding transfer k fails, main ends
\* at once: exactly the transfers 0..k-1 are submitted (and stay so), the
\* counter has advanced by k, join_all is never reached and no tick fires.
C19_FundingFailureStopsLoop ==
    exit \in {"fund_build", "fund_send"} =>
        /\ pc = "done"
        /\ fi < max
        /\ Len(sent) = fi
        /\ Len(ledger) = fi
        /\ nonce = nonce0 + fi
        /\ ticks = 0

C19_Witness == exit = "fund_send" /\ fi = 1 /\ ledger[1] = "pending" /\ nonce0 >= 1

\* the index of the send attempt that `att` describes
AttemptIdx == addressed[Len(addressed)]

\* C14: a send attempt fetches the nonce exactly once and submits at most
\* once; after a failed fetch it submits nothing; neither a failed fetch nor
\* a failed submission is repeated within the attempt.
C14_OneFetchAtMostOneSubmit ==
    /\ att.fetches <= 1
    /\ att.submits <= 1
    /\ pc = "fetch" => (att.fetches = 0 /\ att.submits = 0)
    /\ pc \in {"build", "send"} => (att.fetches = 1 /\ att.fetchOk /\ att.submits = 0)
    /\ att.submits = 1 => (att.fetches = 1 /\ att.fetchOk)
    /\ (att.fetches = 1 /\ ~att.fetchOk) => (att.submits = 0 /\ pc \in {"loop", "done"})
    /\ (pc = "loop" /\ Len(addressed) > 0) => att.fetches = 1

\* a failed fetch ended attempt 0, and attempt 1 has fetched and submitted once
C14_Witness ==
    /\ pc = "loop"
    /\ failedAt = {0}
    /\ Len(addressed) = 2
    /\ att.fetches = 1
    /\ att.submits = 1

\* C15: a transaction submitted in the spam phase has the addressed child
\* wallet as sender and as recipient, value zero, the nonce fetched in the same
\* attempt, and goes to the endpoint that nonce was fetched from; the funder
\* is never its sender.
C15_SelfTransaction ==
    /\ pc = "send" =>
           /\ tx.from = ChildAddr(idx)
           /\ tx.nonce = att.fetchNonce
           /\ provider = att.fetchVia
    /\ att.submits > 0 =>
           /\ att.subTx.from = ChildAddr(AttemptIdx)
           /\ att.subTx.to = ChildAddr(AttemptIdx)
           /\ att.subTx.from # ParentAddr
           /\ att.subTx.value = 0
           /\ att.subTx.nonce = att.fetchNonce
           /\ att.subVia = att.fetchVia
           /\ att.subVia \in 1..nrpcs

\* the second endpoint served attempt 1, with a nonce other than zero
C15_Witness ==
    /\ att.submits = 1
    /\ att.subVia = 2
    /\ att.subTx.nonce = 1
    /\ Len(addressed) = 2

\* a step of main() in the spam phase
SpamStep == Tick \/ LoopHead \/ Fetch \/ Build \/ Send

\* C17: once funding has completed the scheduler has no terminal state: as
\* long as ticks remain to be explored, main() can always take a further step
\* (so that with returning network calls and a fair timer another tick fires).
C17_NoTerminalState == (ticks > 0 /\ ticks < MaxTicks) => ENABLED SpamStep

\* C18: every index a send attempt uses is inside the pool of max child
\* wallets (the drawn count never exceeds max), so child_wallets.get(idx)
\* never returns None.
C18_IndexInPool ==
    /\ exit # "panic_no_wallet"
    /\ num <= max
    /\ \A k \in 1..Len(addressed) : addressed[k] \in 0..(max - 1)
    /\ pc \in {"fetch", "build", "send"} => idx < max

C18_Witness == pc = "fetch" /\ idx = max - 1 /\ max >= 2

\* C20: send attempts run strictly one at a time: at most one is in flight,
\* attempt idx starts only when all of 0..idx-1 have finished, and none is in
\* flight while the next tick is awaited.
C20_OneAttemptAtATime ==
    /\ inflight <= 1
    /\ pc \in {"fetch", "build", "send"} => inflight = 1
    /\ pc \in {"loop", "tick_wait"} => inflight = 0
    /\ pc = "fetch" => Len(addressed) = idx + 1

C20_Witness == pc = "fetch" /\ idx = 1 /\ inflight = 1 /\ clock > 0

====
